---- MODULE Spec2Model ----
(***************************************************************************)
(* The appointment-booking engine of "Agentic ai/task 5.py": the slot      *)
(* calendar, the intent parser, the ledger of appointments and the booking *)
(* workflow of class BookingAgent, with the widget handler that drives it. *)
(*                                                                         *)
(* Time is a count of seconds since 00:00:00 of a Monday (datetime's       *)
(* weekday() 0).  A datetime's microseconds are left out: every comparison *)
(* of the code is between a whole-second slot and the clock, and           *)
(* slot > clock has the same answer with the clock rounded down to the     *)
(* second.  One run reads one clock value, now.                            *)
(***************************************************************************)
EXTENDS Integers, Sequences, FiniteSets, TLC

VARIABLES now, available_slots, appointments, next_appointment_id, result,
          mode, pc, request, candidates

vars == <<now, available_slots, appointments, next_appointment_id, result,
          mode, pc, request, candidates>>

ledger == <<available_slots, appointments, next_appointment_id>>

(***************************************************************************)
(* Bounds of the model.                                                    *)
(***************************************************************************)
\* the clock values of the slot-calendar checks are the multiples of NowStep
\* seconds within one week
NowStep == 450
\* create_appointment is called while next_appointment_id <= MaxAppointments
MaxAppointments == 2
\* a repeated request is sent while next_appointment_id <= MaxRepeats
MaxRepeats == 80
\* a direct create_appointment call takes one of the first MaxSlotChoice
\* generated slots
MaxSlotChoice == 2

(***************************************************************************)
(* datetime and timedelta                                                  *)
(***************************************************************************)
SecondsPerMinute == 60
SecondsPerHour == 3600
SecondsPerDay == 86400
DaysPerWeek == 7

None == "None"

\* if x: of a str or None
Truthy(x) == x # None /\ x # ""

Hour(t) == (t % SecondsPerDay) \div SecondsPerHour
Minute(t) == (t % SecondsPerHour) \div SecondsPerMinute
Second(t) == t % SecondsPerMinute
Midnight(t) == t - (t % SecondsPerDay)

\* datetime.weekday(): Monday is 0, Sunday is 6
Weekday(t) == (t \div SecondsPerDay) % DaysPerWeek

\* datetime.replace(hour=h, minute=m): the date and the seconds are kept
ReplaceHourMinute(t, h, m) ==
    Midnight(t) + h * SecondsPerHour + m * SecondsPerMinute + Second(t)

\* datetime.replace(hour=h, minute=m, second=0, microsecond=0)
ReplaceTime(t, h, m) == Midnight(t) + h * SecondsPerHour + m * SecondsPerMinute

\* strftime("%Y-%m-%d"): the calendar date, the time of day dropped.  The
\* date is written as the count of days since the Monday of time 0.
DateStr(t) == "day " \o ToString(t \div SecondsPerDay)

\* sorted(list of datetime)
Sorted(s) == SortSeq(s, LAMBDA a, b : a < b)

RECURSIVE Concat(_, _)
\* the lists f[1], ..., f[n] one after the other
Concat(f, n) == IF n = 0 THEN <<>> ELSE Concat(f, n - 1) \o f[n]

(***************************************************************************)
(* BookingAgent._generate_weekly_slots                                     *)
(***************************************************************************)
HorizonDays == 7
FirstHour == 9
LastHour == 17
SlotMinutes == 30
BufferHours == 1
Saturday == 5

\* DaySlots with the buffer test written slot_time >= now + 1 hour
DaySlotsAtOrAfter(clock, current_date) ==
    LET perHour == SecondsPerHour \div (SlotMinutes * SecondsPerMinute)
        n == (LastHour - FirstHour) * perHour
        slot_time(i) == ReplaceHourMinute(current_date,
                                          FirstHour + ((i - 1) \div perHour),
                                          SlotMinutes * ((i - 1) % perHour))
    IN  SelectSeq([i \in 1..n |-> slot_time(i)],
                  LAMBDA s : s >= clock + BufferHours * SecondsPerHour)

\* for hour in range(9, 17): for minute in [0, 30]: the slot times of one day,
\* in loop order, those later than the clock plus one hour
DaySlots(clock, current_date) ==
    LET perHour == SecondsPerHour \div (SlotMinutes * SecondsPerMinute)
        n == (LastHour - FirstHour) * perHour
        slot_time(i) == ReplaceHourMinute(current_date,
                                          FirstHour + ((i - 1) \div perHour),
                                          SlotMinutes * ((i - 1) % perHour))
    IN  SelectSeq([i \in 1..n |-> slot_time(i)],
                  LAMBDA s : s > clock + BufferHours * SecondsPerHour)

\* GenerateWeeklySlots with the weekend test written weekday() > 5
GenerateWeeklySlotsWithSaturday(clock) ==
    LET start_date == ReplaceTime(clock, FirstHour, 0)
        current_date(day) == start_date + day * SecondsPerDay
        perDay == [d \in 1..HorizonDays |->
                      IF Weekday(current_date(d - 1)) > Saturday
                      THEN <<>>
                      ELSE DaySlots(clock, current_date(d - 1))]
    IN  Sorted(Concat(perDay, HorizonDays))

\* BookingAgent._generate_weekly_slots
GenerateWeeklySlots(clock) ==
    LET start_date == ReplaceTime(clock, FirstHour, 0)
        current_date(day) == start_date + day * SecondsPerDay
        perDay == [d \in 1..HorizonDays |->
                      IF Weekday(current_date(d - 1)) >= Saturday
                      THEN <<>>
                      ELSE DaySlots(clock, current_date(d - 1))]
    IN  Sorted(Concat(perDay, HorizonDays))

(***************************************************************************)
(* str: lower(), split() and the substring test "p in m"                   *)
(***************************************************************************)
LowerChar(c) == CASE c = "A" -> "a" []
                   c = "B" -> "b" []
                   c = "C" -> "c" []
                   c = "D" -> "d" []
                   c = "E" -> "e" []
                   c = "F" -> "f" []
                   c = "G" -> "g" []
                   c = "H" -> "h" []
                   c = "I" -> "i" []
                   c = "J" -> "j" []
                   c = "K" -> "k" []
                   c = "L" -> "l" []
                   c = "M" -> "m" []
                   c = "N" -> "n" []
                   c = "O" -> "o" []
                   c = "P" -> "p" []
                   c = "Q" -> "q" []
                   c = "R" -> "r" []
                   c = "S" -> "s" []
                   c = "T" -> "t" []
                   c = "U" -> "u" []
                   c = "V" -> "v" []
                   c = "W" -> "w" []
                   c = "X" -> "x" []
                   c = "Y" -> "y" []
                   c = "Z" -> "z" []
                   OTHER -> c

RECURSIVE Lower(_)
\* str.lower(), character by character
Lower(m) == IF Len(m) = 0 THEN ""
            ELSE LowerChar(SubSeq(m, 1, 1)) \o Lower(SubSeq(m, 2, Len(m)))

\* p in m: p occurs in m as a contiguous run of characters
Contains(m, p) ==
    \E i \in 1..(Len(m) - Len(p) + 1) : SubSeq(m, i, i + Len(p) - 1) = p

RECURSIVE SplitFrom(_, _, _)
\* the words of m from character i on, word being the characters read so far
SplitFrom(m, i, word) ==
    IF i > Len(m) THEN (IF word = "" THEN <<>> ELSE <<word>>)
    ELSE IF SubSeq(m, i, i) = " "
         THEN (IF word = "" THEN <<>> ELSE <<word>>) \o SplitFrom(m, i + 1, "")
         ELSE SplitFrom(m, i + 1, word \o SubSeq(m, i, i))

\* str.split(): the words between runs of blanks
Split(m) == SplitFrom(m, 1, "")

Min(S) == CHOOSE x \in S : \A y \in S : x <= y
Max(S) == CHOOSE x \in S : \A y \in S : x >= y

(***************************************************************************)
(* BookingAgent.__init__: the service catalog, in declaration order        *)
(***************************************************************************)
services == <<
    [name |-> "doctor",       duration |-> 30, price |-> 100, type |-> "medical"],
    [name |-> "dentist",      duration |-> 45, price |-> 150, type |-> "medical"],
    [name |-> "therapy",      duration |-> 60, price |-> 120, type |-> "wellness"],
    [name |-> "consultation", duration |-> 30, price |-> 80,  type |-> "professional"],
    [name |-> "massage",      duration |-> 60, price |-> 90,  type |-> "wellness"],
    [name |-> "checkup",      duration |-> 20, price |-> 60,  type |-> "medical"] >>

\* list(self.services.keys())
ServiceKeys == [i \in 1..Len(services) |-> services[i].name]

ServiceNames == {services[i].name : i \in 1..Len(services)}

\* self.services[service], for a service of the catalog
ServiceInfo(service) ==
    services[CHOOSE i \in 1..Len(services) : services[i].name = service]

(***************************************************************************)
(* BookingAgent._next_weekday and BookingAgent.parse_booking_intent        *)
(***************************************************************************)
\* _next_weekday with the test days_ahead < 0: today counts as the next one
NextWeekdayFromToday(clock, weekday) ==
    LET days_ahead == weekday - Weekday(clock)
        ahead == IF days_ahead < 0 THEN days_ahead + DaysPerWeek ELSE days_ahead
    IN  DateStr(clock + ahead * SecondsPerDay)

NextWeekday(clock, weekday) ==
    LET days_ahead == weekday - Weekday(clock)
        ahead == IF days_ahead <= 0 THEN days_ahead + DaysPerWeek ELSE days_ahead
    IN  DateStr(clock + ahead * SecondsPerDay)

time_patterns == <<
    <<"morning", "09:00-12:00">>,
    <<"afternoon", "12:00-17:00">>,
    <<"evening", "17:00-20:00">>,
    <<"lunch", "12:00-13:00">> >>

\* date_patterns with "tomorrow" resolved to the date of today
date_patternsToday(clock) == <<
    <<"tomorrow", DateStr(clock)>>,
    <<"monday", NextWeekday(clock, 0)>>,
    <<"tuesday", NextWeekday(clock, 1)>>,
    <<"wednesday", NextWeekday(clock, 2)>>,
    <<"thursday", NextWeekday(clock, 3)>>,
    <<"friday", NextWeekday(clock, 4)>>,
    <<"next week", DateStr(clock + DaysPerWeek * SecondsPerDay)>> >>

date_patterns(clock) == <<
    <<"tomorrow", DateStr(clock + SecondsPerDay)>>,
    <<"monday", NextWeekday(clock, 0)>>,
    <<"tuesday", NextWeekday(clock, 1)>>,
    <<"wednesday", NextWeekday(clock, 2)>>,
    <<"thursday", NextWeekday(clock, 3)>>,
    <<"friday", NextWeekday(clock, 4)>>,
    <<"next week", DateStr(clock + DaysPerWeek * SecondsPerDay)>> >>

urgency_indicators == <<"urgent", "asap", "emergency", "quick", "soon">>
positive_indicators == <<"please", "thank", "appreciate", "would like">>

(***************************************************************************)
(* The request texts of the model                                          *)
(***************************************************************************)
Scenario == "I need a dentist appointment tomorrow afternoon"

\* the request texts of the ledger
Messages == {Scenario, "book something", "Doctor please", "checkup next week"}

\* request texts that name a catalog service and one weekday: the i-th names
\* the weekday i - 1 (Monday is 0)
WeekdayMessages ==
    <<"dentist on Monday", "doctor tuesday", "Therapy Wednesday",
      "massage thursday", "checkup friday">>

\* the request texts typed into the widget
ClickMessages == {Scenario, "book something", "Doctor please"}

\* the request texts a user sends again and again
RepeatMessages == {"doctor tomorrow", "Doctor please", "checkup next week"}

\* request texts with several time-of-day phrases, in both orders
PhraseMessages ==
    {"dentist in the morning or evening", "dentist in the evening or morning",
     "massage at lunch or in the afternoon", "massage in the afternoon or at lunch",
     "Doctor Morning, Afternoon or Evening", "checkup lunch evening afternoon morning"}

\* the request texts given to parse_booking_intent alone
ParseMessages ==
    Messages \cup ClickMessages \cup RepeatMessages \cup PhraseMessages
    \cup {WeekdayMessages[i] : i \in 1..Len(WeekdayMessages)}

\* every word and phrase parse_booking_intent looks for
Patterns ==
    {ServiceKeys[i] : i \in 1..Len(ServiceKeys)}
    \cup UNION {{Split(ServiceKeys[i])[j] : j \in 1..Len(Split(ServiceKeys[i]))} :
                i \in 1..Len(ServiceKeys)}
    \cup {time_patterns[i][1] : i \in 1..Len(time_patterns)}
    \cup {date_patterns(0)[i][1] : i \in 1..Len(date_patterns(0))}
    \cup {urgency_indicators[i] : i \in 1..Len(urgency_indicators)}
    \cup {positive_indicators[i] : i \in 1..Len(positive_indicators)}

\* message_lower = user_message.lower(); p in message_lower
InLower(user_message, p) == Contains(Lower(user_message), p)

\* InLower at the texts of the model, evaluated once
InLowerTable ==
    [m \in ParseMessages, p \in Patterns |-> InLower(m, p)]

InMessage(user_message, p) == InLowerTable[user_message, p]

\* the places in the list words of the words that are in message_lower
Matches(user_message, words) ==
    {i \in 1..Len(words) : InMessage(user_message, words[i])}

\* for service in keys: if <match>: intent["service"] = service; break
\* (the first match, or None)
FirstMatch(keys, hits) == IF hits = {} THEN None ELSE keys[Min(hits)]

\* LastMatch with a break after the first assignment
LastMatchBreaking(table, user_message) ==
    LET hits == Matches(user_message, [i \in 1..Len(table) |-> table[i][1]])
    IN  IF hits = {} THEN None ELSE table[Min(hits)][2]

\* for pattern, value in table: if pattern in message_lower: field = value
\* (every match assigns, so the last match of the table stays)
LastMatch(table, user_message) ==
    LET hits == Matches(user_message, [i \in 1..Len(table) |-> table[i][1]])
    IN  IF hits = {} THEN None ELSE table[Max(hits)][2]

ParseBookingIntent(user_message, clock) ==
    LET direct == FirstMatch(ServiceKeys, Matches(user_message, ServiceKeys))
        partial == FirstMatch(ServiceKeys,
                       {i \in 1..Len(ServiceKeys) :
                           Matches(user_message, Split(ServiceKeys[i])) # {}})
    IN  [service |-> IF Truthy(direct) THEN direct ELSE partial,
         preferred_time |-> LastMatch(time_patterns, user_message),
         date_preference |-> LastMatch(date_patterns(clock), user_message),
         urgency |-> IF Matches(user_message, urgency_indicators) # {}
                     THEN "high" ELSE "normal",
         certainty |-> "high",
         user_sentiment |-> IF Matches(user_message, positive_indicators) # {}
                            THEN "positive" ELSE "neutral"]

(***************************************************************************)
(* The inputs of the model                                                 *)
(***************************************************************************)
At(day, hour, minute, second) ==
    day * SecondsPerDay + hour * SecondsPerHour + minute * SecondsPerMinute + second

\* the clock values of the ledger: Monday 08:00:00 (the 09:00 slot is exactly
\* one hour away), Wednesday 10:17:23, Friday 16:10:00 (tomorrow is Saturday)
LedgerNows == {At(0, 8, 0, 0), At(2, 10, 17, 23), At(4, 16, 10, 0)}

\* the clock values of the widget: every NowStep seconds of one week
ClickNows == {k * NowStep : k \in 0..((DaysPerWeek * SecondsPerDay - 1) \div NowStep)}

\* _generate_weekly_slots at the clock values above, evaluated once
SlotTable == [t \in LedgerNows \cup ClickNows |-> GenerateWeeklySlots(t)]

Generated(clock) == SlotTable[clock]

\* the services of a direct create_appointment or find_available_slots call:
\* one of the catalog and one that is not in it
CallServices == {"dentist", "yoga"}

\* the slots of a direct create_appointment call
CallSlots(clock) ==
    {Generated(clock)[i] : i \in 1..MaxSlotChoice}

\* the date preferences of a direct find_available_slots call
CallDates(clock) == {None, DateStr(clock + SecondsPerDay)}

Users == {"dev ambekar", "guest"}

Callers == {1, 2}

(***************************************************************************)
(* Appointment                                                             *)
(***************************************************************************)
\* Appointment.__init__
NewAppointment(appointment_id, user_id, service, scheduled_time, duration, clock) ==
    [appointment_id |-> appointment_id, user_id |-> user_id, service |-> service,
     scheduled_time |-> scheduled_time, duration |-> duration,
     status |-> "pending", created_at |-> clock, confirmed_at |-> None]

\* Appointment.confirm
Confirm(appointment, clock) ==
    [appointment EXCEPT !.status = "confirmed", !.confirmed_at = clock]

(***************************************************************************)
(* BookingAgent: the ledger                                                *)
(***************************************************************************)
IdWidth == 4
MaxReturned == 6

RECURSIVE ZeroPad(_, _)
\* the format {:04d}: zeros in front up to the width, no digit dropped
ZeroPad(digits, width) ==
    IF Len(digits) >= width THEN digits ELSE ZeroPad("0" \o digits, width)

\* f"apt_{self.next_appointment_id:04d}"
AppointmentId(n) == "apt_" \o ZeroPad(ToString(n), IdWidth)

\* s[:n]
Take(s, n) == SubSeq(s, 1, IF Len(s) < n THEN Len(s) ELSE n)

\* BookingAgent._is_slot_booked
IsSlotBooked(appts, slot) ==
    \E id \in DOMAIN appts :
        /\ appts[id].scheduled_time = slot
        /\ appts[id].status # "cancelled"

\* FindAvailableSlots reading a newly generated week, without the test of
\* _is_slot_booked
FindAvailableSlotsUnfiltered(slots, appts, service, date_preference) ==
    IF service \notin ServiceNames THEN <<>>
    ELSE LET keep(slot) == Truthy(date_preference) => DateStr(slot) = date_preference
         IN  Take(Sorted(SelectSeq(Generated(now), keep)), MaxReturned)

\* FindAvailableSlots returning sorted(available)[-6:]
FindAvailableSlotsLast(slots, appts, service, date_preference) ==
    IF service \notin ServiceNames THEN <<>>
    ELSE LET keep(slot) ==
                 /\ ~IsSlotBooked(appts, slot)
                 /\ (Truthy(date_preference) => DateStr(slot) = date_preference)
             all == Sorted(SelectSeq(slots, keep))
         IN  SubSeq(all, IF Len(all) > MaxReturned THEN Len(all) - MaxReturned + 1 ELSE 1,
                    Len(all))

\* BookingAgent.find_available_slots
FindAvailableSlots(slots, appts, service, date_preference) ==
    IF service \notin ServiceNames THEN <<>>
    ELSE LET keep(slot) ==
                 /\ ~IsSlotBooked(appts, slot)
                 /\ (Truthy(date_preference) => DateStr(slot) = date_preference)
         IN  Take(Sorted(SelectSeq(slots, keep)), MaxReturned)

\* _remove_slot as self.available_slots.pop(0)
RemoveSlotFirst(slots, slot) == IF slots = <<>> THEN slots ELSE Tail(slots)

\* BookingAgent._remove_slot
RemoveSlot(slots, slot) == SelectSeq(slots, LAMBDA s : s # slot)

\* CreateAppointment with the duration read as
\* self.services.get(service, {}).get("duration", 60): nothing is raised
CreateAppointmentDefaultDuration(slots, appts, next_id, clock, user_id, service, slot) ==
    LET appointment_id == AppointmentId(next_id)
        service_duration == IF service \in ServiceNames
                            THEN ServiceInfo(service).duration ELSE 60
        appointment ==
            Confirm(NewAppointment(appointment_id, user_id, service, slot,
                                   service_duration, clock),
                    clock)
    IN  [available_slots |-> RemoveSlot(slots, slot),
         appointments |-> (appointment_id :> appointment) @@ appts,
         next_appointment_id |-> next_id + 1,
         raised |-> None, appointment |-> appointment]

\* CreateAppointment without self.next_appointment_id += 1
CreateAppointmentSameCounter(slots, appts, next_id, clock, user_id, service, slot) ==
    LET appointment_id == AppointmentId(next_id)
    IN  IF service \notin ServiceNames
        THEN [available_slots |-> slots, appointments |-> appts,
              next_appointment_id |-> next_id,
              raised |-> "KeyError", appointment |-> None]
        ELSE LET appointment ==
                     Confirm(NewAppointment(appointment_id, user_id, service, slot,
                                            ServiceInfo(service).duration, clock),
                             clock)
             IN  [available_slots |-> RemoveSlot(slots, slot),
                  appointments |-> (appointment_id :> appointment) @@ appts,
                  next_appointment_id |-> next_id,
                  raised |-> None, appointment |-> appointment]

\* BookingAgent.create_appointment: the agent's fields after the call, the
\* exception it raised (None: it returned) and the appointment it returned.
\* The counter is advanced before the catalog lookup that raises KeyError.
CreateAppointment(slots, appts, next_id, clock, user_id, service, slot) ==
    LET appointment_id == AppointmentId(next_id)
    IN  IF service \notin ServiceNames
        THEN [available_slots |-> slots, appointments |-> appts,
              next_appointment_id |-> next_id + 1,
              raised |-> "KeyError", appointment |-> None]
        ELSE LET appointment ==
                     Confirm(NewAppointment(appointment_id, user_id, service, slot,
                                            ServiceInfo(service).duration, clock),
                             clock)
             IN  [available_slots |-> RemoveSlot(slots, slot),
                  appointments |-> (appointment_id :> appointment) @@ appts,
                  next_appointment_id |-> next_id + 1,
                  raised |-> None, appointment |-> appointment]

\* BookSelected with selected_slot = available_slots[-1]
BookSelectedLast(slots, appts, next_id, clock, user_id, intent, found) ==
    LET selected_slot == found[Len(found)]
        made == CreateAppointment(slots, appts, next_id, clock, user_id,
                                  intent.service, selected_slot)
        appointment == made.appointment
    IN  [available_slots |-> made.available_slots,
         appointments |-> made.appointments,
         next_appointment_id |-> made.next_appointment_id,
         outcome |->
            [status |-> "success",
             appointment_id |-> appointment.appointment_id,
             service |-> appointment.service,
             scheduled_time |-> appointment.scheduled_time,
             duration |-> ToString(appointment.duration) \o " minutes",
             price |-> "$" \o ToString(ServiceInfo(intent.service).price),
             service_type |-> ServiceInfo(intent.service).type]]

\* BookingAgent.process_booking_request from Step 3 on: available_slots[0] is
\* booked and the confirmation returned
BookSelected(slots, appts, next_id, clock, user_id, intent, found) ==
    LET selected_slot == found[1]
        made == CreateAppointment(slots, appts, next_id, clock, user_id,
                                  intent.service, selected_slot)
        appointment == made.appointment
    IN  [available_slots |-> made.available_slots,
         appointments |-> made.appointments,
         next_appointment_id |-> made.next_appointment_id,
         outcome |->
            [status |-> "success",
             appointment_id |-> appointment.appointment_id,
             service |-> appointment.service,
             scheduled_time |-> appointment.scheduled_time,
             duration |-> ToString(appointment.duration) \o " minutes",
             price |-> "$" \o ToString(ServiceInfo(intent.service).price),
             service_type |-> ServiceInfo(intent.service).type]]

\* a clarification that offers the hard-coded suggestions as the catalog
ClarificationNeededSuggested ==
    [status |-> "clarification_needed",
     available_services |-> <<"doctor", "dentist", "therapy", "massage", "consultation">>,
     suggestions |-> <<"doctor", "dentist", "therapy", "massage", "consultation">>]

\* BookingAgent.process_booking_request: the outcome when no service was found
ClarificationNeeded ==
    [status |-> "clarification_needed",
     available_services |-> ServiceKeys,
     suggestions |-> <<"doctor", "dentist", "therapy", "massage", "consultation">>]

\* a refusal that offers the whole catalog as alternatives
NoSlotsWholeCatalog(intent) ==
    [status |-> "no_slots", alternative_services |-> ServiceKeys]

\* BookingAgent.process_booking_request: the outcome when no slot was found
NoSlots(intent) ==
    [status |-> "no_slots",
     alternative_services |-> SelectSeq(ServiceKeys, LAMBDA s : s # intent.service)]

\* ProcessBookingRequest with the appointment id allocated before the slot
\* search: a request refused with no_slots has used up a counter value
ProcessBookingRequestEagerId(slots, appts, next_id, clock, user_id, user_message) ==
    LET intent == ParseBookingIntent(user_message, clock)
        found == FindAvailableSlots(slots, appts, intent.service, intent.date_preference)
    IN  IF ~Truthy(intent.service)
        THEN [available_slots |-> slots, appointments |-> appts,
              next_appointment_id |-> next_id, intent |-> intent,
              outcome |-> ClarificationNeeded]
        ELSE IF found = <<>>
        THEN [available_slots |-> slots, appointments |-> appts,
              next_appointment_id |-> next_id + 1, intent |-> intent,
              outcome |-> NoSlots(intent)]
        ELSE LET booked == BookSelected(slots, appts, next_id, clock, user_id,
                                        intent, found)
             IN  [available_slots |-> booked.available_slots,
                  appointments |-> booked.appointments,
                  next_appointment_id |-> booked.next_appointment_id,
                  intent |-> intent, outcome |-> booked.outcome]

\* BookingAgent.process_booking_request: the agent's fields after the call,
\* the intent it parsed and the outcome returned
ProcessBookingRequest(slots, appts, next_id, clock, user_id, user_message) ==
    LET intent == ParseBookingIntent(user_message, clock)
        found == FindAvailableSlots(slots, appts, intent.service, intent.date_preference)
        unchanged(outcome) ==
            [available_slots |-> slots, appointments |-> appts,
             next_appointment_id |-> next_id, intent |-> intent, outcome |-> outcome]
    IN  IF ~Truthy(intent.service) THEN unchanged(ClarificationNeeded)
        ELSE IF found = <<>> THEN unchanged(NoSlots(intent))
        ELSE LET booked == BookSelected(slots, appts, next_id, clock, user_id,
                                        intent, found)
             IN  [available_slots |-> booked.available_slots,
                  appointments |-> booked.appointments,
                  next_appointment_id |-> booked.next_appointment_id,
                  intent |-> intent, outcome |-> booked.outcome]

\* BookingAgent.get_booking_stats
GetBookingStats(slots, appts) ==
    [total_appointments |-> Cardinality(DOMAIN appts),
     confirmed_appointments |->
         Cardinality({id \in DOMAIN appts : appts[id].status = "confirmed"}),
     available_slots |-> Len(slots),
     services_offered |-> Len(services),
     next_available_slot |-> IF slots # <<>> THEN <<slots[1]>> ELSE <<>>]

(***************************************************************************)
(* The state: one BookingAgent, the last call made on it and its result,   *)
(* and the callers of process_booking_request with a request in flight.    *)
(***************************************************************************)
\* BookingAgent.__init__ at time clock
NewAgent(clock) ==
    /\ appointments' = <<>>
    /\ available_slots' = Generated(clock)
    /\ next_appointment_id' = 1

Idle ==
    /\ pc = [c \in Callers |-> "idle"]
    /\ request = [c \in Callers |-> <<>>]
    /\ candidates = [c \in Callers |-> <<>>]

InitAgent(clocks, m) ==
    /\ now \in clocks
    /\ appointments = <<>>
    /\ available_slots = Generated(now)
    /\ next_appointment_id = 1
    /\ result = [op |-> "__init__"]
    /\ mode = m
    /\ Idle

Init == InitAgent(LedgerNows, "single")

\* a direct call agent.create_appointment(user_id, service, slot)
CreateAppointmentCall(user_id, service, slot) ==
    LET made == CreateAppointment(available_slots, appointments, next_appointment_id,
                                  now, user_id, service, slot)
    IN  /\ next_appointment_id <= MaxAppointments
        /\ available_slots' = made.available_slots
        /\ appointments' = made.appointments
        /\ next_appointment_id' = made.next_appointment_id
        /\ result' = [op |-> "create_appointment", user_id |-> user_id,
                      service |-> service, slot |-> slot, raised |-> made.raised,
                      appointment_id |-> IF made.raised = None
                                         THEN made.appointment.appointment_id
                                         ELSE None]
        /\ UNCHANGED <<now, mode, pc, request, candidates>>

\* FindAvailableSlotsCall with the slots it returns taken off the slot list
FindAvailableSlotsCallPruning(service, date_preference) ==
    LET found == FindAvailableSlots(available_slots, appointments,
                                    service, date_preference)
    IN  /\ result' = [op |-> "find_available_slots", service |-> service,
                      date_preference |-> date_preference, slots |-> found]
        /\ available_slots' = SelectSeq(available_slots,
                                        LAMBDA s : s \notin {found[i] : i \in 1..Len(found)})
        /\ UNCHANGED <<now, appointments, next_appointment_id,
                       mode, pc, request, candidates>>

\* a direct call agent.find_available_slots(service, date_preference)
FindAvailableSlotsCall(service, date_preference) ==
    /\ result' = [op |-> "find_available_slots", service |-> service,
                  date_preference |-> date_preference,
                  slots |-> FindAvailableSlots(available_slots, appointments,
                                               service, date_preference)]
    /\ UNCHANGED <<now, ledger, mode, pc, request, candidates>>

\* a call agent.process_booking_request(user_id, user_message)
ProcessBookingRequestCall(user_id, user_message) ==
    LET done == ProcessBookingRequest(available_slots, appointments,
                                      next_appointment_id, now, user_id, user_message)
    IN  /\ next_appointment_id <= MaxAppointments
        /\ available_slots' = done.available_slots
        /\ appointments' = done.appointments
        /\ next_appointment_id' = done.next_appointment_id
        /\ result' = [op |-> "process_booking_request", user_id |-> user_id,
                      user_message |-> user_message, intent |-> done.intent,
                      outcome |-> done.outcome]
        /\ UNCHANGED <<now, mode, pc, request, candidates>>

Next ==
    \/ \E u \in Users, s \in CallServices, t \in CallSlots(now) :
           CreateAppointmentCall(u, s, t)
    \/ \E s \in CallServices, d \in CallDates(now) : FindAvailableSlotsCall(s, d)
    \/ \E u \in Users, m \in Messages : ProcessBookingRequestCall(u, m)

Spec == Init /\ [][Next]_vars

(***************************************************************************)
(* The widget: each click makes a fresh BookingAgent and calls it once.    *)
(***************************************************************************)
InitClick == InitAgent(ClickNows, "single")

\* on_booking_click
OnBookingClick(user_id, user_message) ==
    LET done == ProcessBookingRequest(Generated(now), <<>>, 1, now,
                                      user_id, user_message)
    IN  /\ available_slots' = done.available_slots
        /\ appointments' = done.appointments
        /\ next_appointment_id' = done.next_appointment_id
        /\ result' = [op |-> "on_booking_click", user_id |-> user_id,
                      user_message |-> user_message, intent |-> done.intent,
                      outcome |-> done.outcome]
        /\ UNCHANGED <<now, mode, pc, request, candidates>>

\* on_stats_click
OnStatsClick ==
    /\ NewAgent(now)
    /\ result' = [op |-> "on_stats_click",
                  stats |-> GetBookingStats(Generated(now), <<>>)]
    /\ UNCHANGED <<now, mode, pc, request, candidates>>

NextClick ==
    \/ \E m \in ClickMessages : OnBookingClick("dev ambekar", m)
    \/ OnStatsClick

SpecClick == InitClick /\ [][NextClick]_vars

\* the widget used for requests that name a weekday
NextClickWeekday ==
    \E i \in 1..Len(WeekdayMessages) : OnBookingClick("dev ambekar", WeekdayMessages[i])

SpecClickWeekday == InitClick /\ [][NextClickWeekday]_vars

(***************************************************************************)
(* Two callers of process_booking_request on one agent.  In mode           *)
(* "serialized" a call runs from its parse to its return as one step; in   *)
(* mode "interleaved" the slot search of a call (Steps 1 and 2) and its    *)
(* booking (Steps 3 and 4) are two steps, and the other caller may run     *)
(* between them.                                                           *)
(***************************************************************************)
CallerUser(c) == IF c = 1 THEN "dev ambekar" ELSE "guest"

InitConc ==
    /\ now \in LedgerNows
    /\ appointments = <<>>
    /\ available_slots = Generated(now)
    /\ next_appointment_id = 1
    /\ result = [op |-> "__init__"]
    /\ mode \in {"serialized", "interleaved"}
    /\ Idle

\* the whole of process_booking_request, under the callers' lock
Serialized(c, user_message) ==
    /\ mode = "serialized"
    /\ ProcessBookingRequestCall(CallerUser(c), user_message)

\* process_booking_request, Steps 1 and 2: parse_booking_intent and
\* find_available_slots; the call returns here when it books nothing
Search(c, user_message) ==
    LET intent == ParseBookingIntent(user_message, now)
        found == FindAvailableSlots(available_slots, appointments,
                                    intent.service, intent.date_preference)
        returned(outcome) ==
            /\ result' = [op |-> "process_booking_request", user_id |-> CallerUser(c),
                          user_message |-> user_message, intent |-> intent,
                          outcome |-> outcome]
            /\ UNCHANGED <<pc, request, candidates>>
    IN  /\ mode = "interleaved"
        /\ pc[c] = "idle"
        /\ next_appointment_id <= MaxAppointments
        /\ IF ~Truthy(intent.service) THEN returned(ClarificationNeeded)
           ELSE IF found = <<>> THEN returned(NoSlots(intent))
           ELSE /\ pc' = [pc EXCEPT ![c] = "book"]
                /\ request' = [request EXCEPT ![c] =
                                  [user_message |-> user_message, intent |-> intent]]
                /\ candidates' = [candidates EXCEPT ![c] = found]
                /\ UNCHANGED result
        /\ UNCHANGED <<now, ledger, mode>>

\* process_booking_request, Steps 3 and 4: create_appointment on
\* available_slots[0] of the search made earlier
Book(c) ==
    LET booked == BookSelected(available_slots, appointments, next_appointment_id,
                               now, CallerUser(c), request[c].intent, candidates[c])
    IN  /\ pc[c] = "book"
        /\ available_slots' = booked.available_slots
        /\ appointments' = booked.appointments
        /\ next_appointment_id' = booked.next_appointment_id
        /\ result' = [op |-> "process_booking_request", user_id |-> CallerUser(c),
                      user_message |-> request[c].user_message,
                      intent |-> request[c].intent, outcome |-> booked.outcome]
        /\ pc' = [pc EXCEPT ![c] = "idle"]
        /\ request' = [request EXCEPT ![c] = <<>>]
        /\ candidates' = [candidates EXCEPT ![c] = <<>>]
        /\ UNCHANGED <<now, mode>>

NextConc ==
    \/ \E c \in Callers, m \in Messages : Serialized(c, m)
    \/ \E c \in Callers, m \in Messages : Search(c, m)
    \/ \E c \in Callers : Book(c)

SpecConc == InitConc /\ [][NextConc]_vars

(***************************************************************************)
(* parse_booking_intent called on its own, at any time of the week.        *)
(***************************************************************************)
InitParse == InitAgent(ClickNows, "single")

\* a direct call agent.parse_booking_intent(user_message)
ParseBookingIntentCall(user_message) ==
    /\ result' = [op |-> "parse_booking_intent", user_message |-> user_message,
                  intent |-> ParseBookingIntent(user_message, now)]
    /\ UNCHANGED <<now, ledger, mode, pc, request, candidates>>

NextParse == \E m \in ParseMessages : ParseBookingIntentCall(m)

SpecParse == InitParse /\ [][NextParse]_vars

(***************************************************************************)
(* One user who sends the same request to one agent again and again, until *)
(* the agent has no slot left for it.                                      *)
(***************************************************************************)
InitRepeat == InitAgent(LedgerNows, "single")

\* agent.process_booking_request(user_id, user_message), with the text of the
\* call before it
RepeatedRequest(user_id, user_message) ==
    LET done == ProcessBookingRequest(available_slots, appointments,
                                      next_appointment_id, now, user_id, user_message)
    IN  /\ IF result.op = "__init__" THEN TRUE
           ELSE result.user_message = user_message
        /\ next_appointment_id <= MaxRepeats
        /\ available_slots' = done.available_slots
        /\ appointments' = done.appointments
        /\ next_appointment_id' = done.next_appointment_id
        /\ result' = [op |-> "process_booking_request", user_id |-> user_id,
                      user_message |-> user_message, intent |-> done.intent,
                      outcome |-> done.outcome]
        /\ UNCHANGED <<now, mode, pc, request, candidates>>

NextRepeat == \E m \in RepeatMessages : RepeatedRequest("dev ambekar", m)

SpecRepeat == InitRepeat /\ [][NextRepeat]_vars

(***************************************************************************)
(* The properties                                                          *)
(***************************************************************************)
Range(f) == {f[x] : x \in DOMAIN f}

\* the appointments that hold a slot
Live(appts) == {id \in DOMAIN appts : appts[id].status # "cancelled"}

\* no two distinct non-cancelled appointments have the same scheduled_time
OneBookingPerSlot(appts) ==
    \A a, b \in Live(appts) :
        a # b => appts[a].scheduled_time # appts[b].scheduled_time

\* this step is a direct create_appointment call (the call always advances
\* the counter)
CreateStep ==
    /\ result'.op = "create_appointment"
    /\ next_appointment_id' = next_appointment_id + 1

\* this step is a process_booking_request call that booked
BookingStep ==
    /\ result'.op \in {"process_booking_request", "on_booking_click"}
    /\ result'.outcome.status = "success"
    /\ next_appointment_id' = next_appointment_id + 1

\* C1: in every state reached by create_appointment and
\* process_booking_request calls on one agent, no two distinct appointments
\* that are not cancelled have the same scheduled_time.
C1_OneBookingPerSlot == OneBookingPerSlot(appointments)

\* C2: after create_appointment on slot S has returned, _is_slot_booked(S) is
\* true, and a create_appointment on a slot that is already booked fails with
\* SlotConflict and stores nothing.
C2_SecondCreateConflicts ==
    [][CreateStep =>
          /\ (result'.raised = None => IsSlotBooked(appointments', result'.slot))
          /\ (IsSlotBooked(appointments, result'.slot) =>
                 /\ result'.raised = "SlotConflict"
                 /\ appointments' = appointments)]_vars

\* C3: when every process_booking_request call runs its search and its
\* create as one step, no two appointments share a slot (that two interleaved
\* calls do book the same slot is the reachable state C3_Witness).
C3_SerializedNeverDoubleBooks ==
    mode = "serialized" => OneBookingPerSlot(appointments)

C3_Witness ==
    /\ mode = "interleaved"
    /\ \E a, b \in DOMAIN appointments :
           /\ appointments[a].user_id = CallerUser(1)
           /\ appointments[b].user_id = CallerUser(2)
           /\ appointments[a].scheduled_time = appointments[b].scheduled_time
           /\ appointments[a].status = "confirmed"
           /\ appointments[b].status = "confirmed"

\* C4: create_appointment with a service that is not in the catalog raises
\* the catalog's lookup error (KeyError) to the caller and stores no
\* appointment.
C4_UnknownServiceRaises ==
    [][(CreateStep /\ result'.service \notin ServiceNames) =>
          /\ result'.raised = "KeyError"
          /\ result'.appointment_id = None
          /\ appointments' = appointments]_vars

C4_Witness ==
    /\ result.op = "create_appointment"
    /\ result.service \notin ServiceNames
    /\ result.raised = "KeyError"
    /\ appointments # <<>>

\* C5: every generated slot is on a weekday Monday to Friday, at a time of
\* day in [09:00, 17:00), with minute 0 or 30 and second 0.
C5_SlotsOnWeekdayGrid ==
    \A slot \in Range(available_slots) :
        /\ Weekday(slot) < Saturday
        /\ FirstHour <= Hour(slot) /\ Hour(slot) < LastHour
        /\ Minute(slot) \in {0, SlotMinutes}
        /\ Second(slot) = 0

\* a Saturday afternoon, seconds not 0: the two first days of the horizon are
\* skipped and the five weekdays that follow are generated in full
C5_Witness ==
    /\ result.op = "on_stats_click"
    /\ Weekday(now) = Saturday /\ Hour(now) = 15 /\ Second(now) = 30
    /\ result.stats.available_slots = 80
    /\ Weekday(available_slots[1]) = 0

\* C6: every generated slot is strictly later than now + 1 hour.
C6_SlotsAfterBuffer ==
    \A slot \in Range(available_slots) :
        slot > now + BufferHours * SecondsPerHour

\* Monday 10:00:00: the slot at 11:00, exactly one hour away, is left out
C6_Witness ==
    /\ result.op = "on_stats_click"
    /\ now = At(0, 10, 0, 0)
    /\ available_slots[1] = At(0, 11, 30, 0)

\* the slots of the slot list that are not occupied
FreeSlots == {slot \in Range(available_slots) : ~IsSlotBooked(appointments, slot)}

\* the last call was find_available_slots for a service of the catalog with
\* no date preference
FoundWithoutDate ==
    /\ result.op = "find_available_slots"
    /\ result.service \in ServiceNames
    /\ result.date_preference = None

Ascending(s) == \A i \in 1..(Len(s) - 1) : s[i] < s[i + 1]

\* C7 as stated: find_available_slots for a known service with no date
\* preference returns, in ascending order, exactly all slots of the slot list
\* that are not occupied, none left out.
C7_ReturnsAllFreeSlots ==
    FoundWithoutDate =>
        /\ Ascending(result.slots)
        /\ Range(result.slots) = FreeSlots

\* C7 as amended: it returns, in ascending order, the 6 earliest slots of the
\* slot list that are not occupied (all of them when there are fewer).
C7_ReturnsEarliestFreeSlots ==
    FoundWithoutDate =>
        /\ Ascending(result.slots)
        /\ Range(result.slots) \subseteq FreeSlots
        /\ Len(result.slots) = IF Cardinality(FreeSlots) < MaxReturned
                               THEN Cardinality(FreeSlots) ELSE MaxReturned
        /\ \A late \in FreeSlots \ Range(result.slots) :
               \A early \in Range(result.slots) : early < late

C7_Witness ==
    /\ FoundWithoutDate
    /\ Len(result.slots) = MaxReturned
    /\ Cardinality(FreeSlots) > MaxReturned
    /\ Cardinality(DOMAIN appointments) = 2
    /\ result.slots[1] # Generated(now)[1]

\* C8: find_available_slots leaves the appointments, the id counter and the
\* slot list as they were, and a second call with the same arguments right
\* after the first returns the same slots.
C8_FindIsIdempotent ==
    [][result'.op = "find_available_slots" =>
          /\ UNCHANGED ledger
          /\ (/\ result.op = "find_available_slots"
              /\ result.service = result'.service
              /\ result.date_preference = result'.date_preference)
             => result'.slots = result.slots]_vars

C8_Witness ==
    /\ result.op = "find_available_slots"
    /\ result.slots # <<>>
    /\ result.date_preference # None
    /\ appointments # <<>>

\* C9: a process_booking_request call that succeeds books the minimum of the
\* generated slots that were unoccupied before the call and, when the intent
\* has a date_preference, are on that date.
C9_BooksEarliestCandidate ==
    [][BookingStep =>
          LET date_preference == result'.intent.date_preference
              eligible == {slot \in Range(Generated(now)) :
                              /\ ~IsSlotBooked(appointments, slot)
                              /\ (date_preference # None =>
                                      DateStr(slot) = date_preference)}
          IN  /\ eligible # {}
              /\ result'.outcome.scheduled_time = Min(eligible)
              /\ appointments'[result'.outcome.appointment_id].scheduled_time
                     = Min(eligible)]_vars

C9_Witness ==
    /\ result.op = "process_booking_request"
    /\ result.outcome.status = "success"
    /\ result.intent.date_preference = None
    /\ Cardinality(DOMAIN appointments) = 2
    /\ result.outcome.scheduled_time = Generated(now)[2]

\* the last call was the widget's request with the scenario text
ScenarioClicked ==
    /\ result.op = "on_booking_click"
    /\ result.user_message = Scenario

ScenarioIntent ==
    /\ result.intent.service = "dentist"
    /\ result.intent.date_preference = DateStr(now + SecondsPerDay)
    /\ result.intent.preferred_time = "12:00-17:00"
    /\ result.intent.urgency = "normal"
    /\ result.intent.user_sentiment = "neutral"

ScenarioBooked ==
    /\ result.outcome.status = "success"
    /\ result.outcome.service = "dentist"
    /\ result.outcome.duration = "45 minutes"
    /\ result.outcome.price = "$150"
    /\ appointments[result.outcome.appointment_id].duration = 45
    /\ DateStr(result.outcome.scheduled_time) = DateStr(now + SecondsPerDay)

\* C10 as stated: for the scenario text on an agent with no appointments,
\* at every current time, the intent is dentist / tomorrow / 12:00-17:00 /
\* normal / neutral and the outcome is success with duration 45, price 150.
C10_ScenarioAlwaysBooked ==
    ScenarioClicked => (ScenarioIntent /\ ScenarioBooked)

\* C10 as amended: the intent is as stated at every current time; the outcome
\* is success with duration 45 and price 150 when tomorrow is a Monday to
\* Friday, and no_slots when tomorrow is a Saturday or a Sunday.
C10_ScenarioBookedOnWeekdays ==
    ScenarioClicked =>
        /\ ScenarioIntent
        /\ IF Weekday(now + SecondsPerDay) < Saturday
           THEN ScenarioBooked
           ELSE result.outcome.status = "no_slots"

\* a Sunday: the request is booked on Monday at 09:00
C10_Witness ==
    /\ ScenarioClicked
    /\ Weekday(now) = 6
    /\ ScenarioBooked
    /\ result.outcome.scheduled_time = Midnight(now) + At(1, FirstHour, 0, 0)

\* the last call was process_booking_request and its text named no service
NoServiceFound ==
    /\ result.op = "process_booking_request"
    /\ \A i \in DOMAIN services :
           ~InMessage(result.user_message, services[i].name)

\* C11: whenever process_booking_request is called with a text in which no
\* service is found, whatever appointments the agent already holds, the
\* outcome is clarification_needed and its available_services lists every
\* service name of the catalog, each once.
C11_ClarificationListsCatalog ==
    NoServiceFound =>
        /\ result.outcome.status = "clarification_needed"
        /\ Len(result.outcome.available_services) = Len(services)
        /\ \A i \in DOMAIN services :
               \E j \in DOMAIN result.outcome.available_services :
                   result.outcome.available_services[j] = services[i].name

\* a text without a service was refused by an agent that holds appointments
C11_Witness ==
    /\ NoServiceFound
    /\ appointments # <<>>
    /\ result.outcome.status = "clarification_needed"
    /\ Len(result.outcome.available_services) = Len(services)

\* the generated slots a request with this intent could be given: those not
\* occupied and, when a date is asked for, on that date
Eligible(intent) ==
    {s \in Range(Generated(now)) :
        /\ ~IsSlotBooked(appointments, s)
        /\ Truthy(intent.date_preference) => DateStr(s) = intent.date_preference}

\* the outcome is no_slots and offers every catalog service but this one
RefusedWithAlternatives(outcome, service) ==
    /\ outcome.status = "no_slots"
    /\ Len(outcome.alternative_services) = Len(services) - 1
    /\ \A i \in DOMAIN services :
           services[i].name # service <=>
               \E j \in DOMAIN outcome.alternative_services :
                   outcome.alternative_services[j] = services[i].name

\* C12: a process_booking_request call whose text names a service X, made
\* when every generated slot on the requested date (every generated slot, when
\* no date is requested) is occupied or no generated slot is on that date,
\* returns no_slots with alternative_services = the catalog names minus X,
\* also when other dates have free slots.
C12_NoSlotsOffersAlternatives ==
    [][(/\ result'.op = "process_booking_request"
        /\ Truthy(result'.intent.service)
        /\ Eligible(result'.intent) = {})
       => RefusedWithAlternatives(result'.outcome, result'.intent.service)]_vars

\* a request was refused after every slot of its date was booked, while
\* slots of other dates are free
C12_Witness ==
    /\ result.op = "process_booking_request"
    /\ result.outcome.status = "no_slots"
    /\ result.outcome.alternative_services =
           <<"dentist", "therapy", "consultation", "massage", "checkup">>
    /\ \E s \in Range(Generated(now)) : DateStr(s) = result.intent.date_preference
    /\ \A s \in Range(Generated(now)) :
           DateStr(s) = result.intent.date_preference => IsSlotBooked(appointments, s)
    /\ available_slots # <<>>

\* the ids made from the counter values 1..n
IdsUpTo(n) == {AppointmentId(k) : k \in 1..n}

\* C13: every create_appointment call that stores an appointment stores it
\* under the id made from the current counter value, an id no stored
\* appointment has; the appointments stored before keep their ids and their
\* contents and carry smaller counter values; and as long as no call has
\* failed the ids are those of the counter values 1, 2, ..., k in that order.
C13_IdsFreshAndSequential ==
    [][appointments' # appointments =>
        LET id == AppointmentId(next_appointment_id)
        IN  /\ id \notin DOMAIN appointments
            /\ DOMAIN appointments \subseteq IdsUpTo(next_appointment_id - 1)
            /\ DOMAIN appointments' = DOMAIN appointments \cup {id}
            /\ \A old \in DOMAIN appointments : appointments'[old] = appointments[old]
            /\ appointments'[id].appointment_id = id
            /\ next_appointment_id' = next_appointment_id + 1
            /\ Cardinality(DOMAIN appointments) = next_appointment_id - 1
                   => DOMAIN appointments' = IdsUpTo(next_appointment_id)]_vars

\* two create_appointment calls have stored two appointments
C13_Witness ==
    /\ result.op = "create_appointment"
    /\ result.appointment_id = "apt_0002"
    /\ DOMAIN appointments = {"apt_0001", "apt_0002"}
    /\ appointments["apt_0001"].appointment_id = "apt_0001"
    /\ appointments["apt_0002"].appointment_id = "apt_0002"

\* the rows of time_patterns whose phrase occurs in the lowercased text
PhrasesIn(user_message) ==
    {i \in DOMAIN time_patterns : InMessage(user_message, time_patterns[i][1])}

\* C14: when the text holds several time-of-day phrases, preferred_time is
\* the range of the phrase that comes last in the table order morning,
\* afternoon, evening, lunch, wherever the phrases stand in the text: a text
\* with "morning" and "evening" gets the evening range in either order.
C14_LastTablePhraseWins ==
    result.op = "parse_booking_intent" =>
        /\ PhrasesIn(result.user_message) # {} =>
               result.intent.preferred_time =
                   time_patterns[Max(PhrasesIn(result.user_message))][2]
        /\ PhrasesIn(result.user_message) = {} => result.intent.preferred_time = None
        /\ result.user_message \in {"dentist in the morning or evening",
                                    "dentist in the evening or morning"}
               => result.intent.preferred_time = "17:00-20:00"
        /\ result.user_message \in {"massage at lunch or in the afternoon",
                                    "massage in the afternoon or at lunch"}
               => result.intent.preferred_time = "12:00-13:00"

\* a text with "evening" before "morning" was parsed to the evening range
C14_Witness ==
    /\ result.op = "parse_booking_intent"
    /\ result.user_message = "dentist in the evening or morning"
    /\ Cardinality(PhrasesIn(result.user_message)) = 2
    /\ result.intent.preferred_time = "17:00-20:00"

\* C15: after any sequence of create_appointment calls the agent's list
\* available_slots holds exactly the generated slots for which
\* _is_slot_booked is false, in generation order: no booked slot is in it and
\* every unoccupied generated slot is.
C15_FreeListMatchesLedger ==
    available_slots =
        SelectSeq(Generated(now), LAMBDA s : ~IsSlotBooked(appointments, s))

\* a create_appointment call has booked a generated slot, which left the list
C15_Witness ==
    /\ result.op = "create_appointment"
    /\ result.raised = None
    /\ result.slot \in Range(Generated(now))
    /\ IsSlotBooked(appointments, result.slot)
    /\ result.slot \notin Range(available_slots)
    /\ Len(available_slots) < Len(Generated(now))

\* the last call was the widget's request with the text naming this weekday
WeekdayClicked(weekday) ==
    /\ result.op = "on_booking_click"
    /\ result.user_message = WeekdayMessages[weekday + 1]

\* the request was booked on the first slot of a day that is this weekday
BookedOnWeekday(weekday) ==
    /\ result.outcome.status = "success"
    /\ Weekday(result.outcome.scheduled_time) = weekday
    /\ DateStr(result.outcome.scheduled_time) = result.intent.date_preference
    /\ Hour(result.outcome.scheduled_time) = FirstHour
    /\ Minute(result.outcome.scheduled_time) = 0

\* C16 as stated: at every current time, a request that names a catalog
\* service and one weekday Monday to Friday, made to an agent without
\* appointments, is booked on a slot of that weekday.
C16_WeekdayAlwaysBooked ==
    \A weekday \in 0..(Len(WeekdayMessages) - 1) :
        WeekdayClicked(weekday) => BookedOnWeekday(weekday)

\* C16 as amended: the request is booked on the 09:00 slot of the next day
\* that is the named weekday when today is another weekday; when today is
\* the named weekday the date resolved is seven days ahead, no generated slot
\* is on it, and the outcome is no_slots.
C16_WeekdayBookedUnlessToday ==
    \A weekday \in 0..(Len(WeekdayMessages) - 1) :
        WeekdayClicked(weekday) =>
            IF Weekday(now) # weekday
            THEN BookedOnWeekday(weekday)
            ELSE /\ result.outcome.status = "no_slots"
                 /\ result.intent.date_preference =
                        DateStr(now + DaysPerWeek * SecondsPerDay)
                 /\ \A s \in Range(Generated(now)) :
                        DateStr(s) # result.intent.date_preference

\* a Wednesday: "dentist on Monday" is booked on the Monday five days ahead
C16_Witness ==
    /\ WeekdayClicked(0)
    /\ Weekday(now) = 2
    /\ BookedOnWeekday(0)
    /\ result.outcome.scheduled_time = Midnight(now) + At(5, FirstHour, 0, 0)

\* C17: a create_appointment call that fails because its service is not in
\* the catalog leaves the appointments, the free slot list and
\* next_appointment_id as they were.
C17_FailedCreateChangesNothing ==
    [][(/\ result'.op = "create_appointment"
        /\ result'.service \notin {services[i].name : i \in DOMAIN services}
        /\ result'.raised # None)
       => UNCHANGED ledger]_vars

\* this step stores one new appointment on this slot under this id, advances
\* the counter by one and takes this slot, and no other, off the free list
BooksExactly(id, slot) ==
    /\ id \notin DOMAIN appointments
    /\ DOMAIN appointments' = DOMAIN appointments \cup {id}
    /\ \A old \in DOMAIN appointments : appointments'[old] = appointments[old]
    /\ appointments'[id].scheduled_time = slot
    /\ next_appointment_id' = next_appointment_id + 1
    /\ slot \in Range(available_slots)
    /\ available_slots' = SelectSeq(available_slots, LAMBDA s : s # slot)
    /\ Len(available_slots') = Len(available_slots) - 1

\* C18: a process_booking_request call whose outcome is clarification_needed
\* or no_slots leaves appointments, the free slot list and
\* next_appointment_id unchanged; a call whose outcome is success adds
\* exactly one appointment, advances the counter by one and removes exactly
\* the booked slot from the free list.
C18_OnlySuccessChangesLedger ==
    [][result'.op = "process_booking_request" =>
        IF result'.outcome.status = "success"
        THEN BooksExactly(result'.outcome.appointment_id,
                          result'.outcome.scheduled_time)
        ELSE /\ result'.outcome.status \in {"clarification_needed", "no_slots"}
             /\ UNCHANGED ledger]_vars

\* a request was refused with no_slots by an agent that holds one
\* appointment: the ledger is as the booking before it left it
C18_Witness ==
    /\ result.op = "process_booking_request"
    /\ result.outcome.status = "no_slots"
    /\ DOMAIN appointments = {"apt_0001"}
    /\ next_appointment_id = 2
    /\ Len(available_slots) = Len(Generated(now)) - 1

====
